---- MODULE Spec2Model ----
(***************************************************************************)
(* MineralChainFHE: the record ledger, the decryption-request table and    *)
(* the per-mineral encrypted counters of the contract, as a state machine. *)
(* Each public function is one atomic action (a transaction).  What a call *)
(* answers (the revert reason, or "ok") is an operator of the state and    *)
(* the arguments; a call that reverts leaves every variable as it was.     *)
(*                                                                         *)
(* A ciphertext handle (euint32) is modelled by a record [init, pt]: init  *)
(* is what FHE.isInitialized answers, pt is the plaintext the decryption   *)
(* oracle would return for it (a storage slot never written is the zero    *)
(* handle, whose plaintext is the zero value of its type).                 *)
(*                                                                         *)
(* The dashboard (App.tsx) keeps its records in a key-value store it       *)
(* reaches through contract.getData and contract.setData.  Each browser    *)
(* session runs one handler at a time; a handler is a sequence of steps,   *)
(* one per await on the store, and the steps of different sessions         *)
(* interleave.  The contract and the dashboard share no state: SpecDash    *)
(* is the specification of the dashboard, Spec the one of the contract.    *)
(***************************************************************************)
EXTENDS Integers, Sequences, FiniteSets, TLC

\* ------------------------------------------------------------- bounds
\* submissions explored
MaxData == 2
\* decryption requests explored
MaxRequests == 2
\* the history counts accepted callbacks per request id up to this number
MaxAccepts == 2
\* longest highRiskRegions array a risk query is given
MaxRegions == 2

\* ------------------------------------------------------------- inputs
MineralTypes == {"Cobalt", "Lithium"}
Origins == {"A", "B"}
\* what contributors encrypt and submit: <<mineral type, quantity, origin>>
Submissions == {<<"Cobalt", 10, "A">>, <<"Lithium", 20, "B">>}
\* block.timestamp
Timestamps == {1000}
\* every string that can reach a string slot ("" is the value of an unset slot)
Strings == MineralTypes \cup Origins \cup {""}

\* uint256(keccak256(abi.encodePacked(s))): one-way and collision free, far
\* above every id the ledger can assign; never 0
bytes32ToUint(b) == b
keccak256(s) ==
    CASE s = ""        -> 1000001
      [] s = "Cobalt"  -> 1000002
      [] s = "Lithium" -> 1000003
      [] s = "A"       -> 1000004
      [] s = "B"       -> 1000005
MineralHashes == {bytes32ToUint(keccak256(s)) : s \in MineralTypes \cup {""}}

\* the keys a caller can pass as dataId: 0, the ids the ledger can assign,
\* and the numeric value of a mineral hash
DataIds == (0 .. MaxData) \cup MineralHashes
\* the dataId arguments the callers of requestSupplyAnalysis try
CallerDataIds == (0 .. MaxData) \cup {bytes32ToUint(keccak256("Cobalt"))}
Callbacks == {"analyzeSupplyChain", "decryptMineralStats"}
\* the request ids a caller can pass: 0 (never issued) and the issued range
RequestIds == 0 .. MaxRequests

\* ---------------------------------------------------- dashboard inputs
\* browser sessions of the dashboard
Sessions == {"tab1", "tab2"}
\* `${Date.now()}-${Math.random().toString(36).substring(2, 9)}`
RecordIds == {"a", "b"}
\* Math.floor(Math.random() * 100) is in 0 .. 99; the values explored are
\* the two around the threshold of assessRiskWithFHE
RiskScores == {70, 71}
\* accounts[0] of the wallet a session connects
walletAccount(s) == IF s = "tab1" THEN "0xA" ELSE "0xB"
\* the form a session submits (newRecordData)
newRecordData ==
    [mineralType |-> "Cobalt", quantity |-> "10", originCountry |-> "A",
     additionalInfo |-> ""]
\* parseInt(str) || 0 for the quantity strings of the form
parseIntOr0(str) == IF str = "10" THEN 10 ELSE 0
\* `supply_${recordId}`
supplyKey(recordId) == "supply_" \o recordId
StoreKeys == {"supply_keys"} \cup {supplyKey(id) : id \in RecordIds}
\* ethers.toUtf8Bytes(JSON.stringify(v)) is a non-empty byte string that
\* JSON.parse(ethers.toUtf8String(b)) turns back into v; a key never set
\* reads as the empty byte string
EmptyBytes == <<>>
toUtf8Bytes(v) == <<v>>
parseJson(b) == b[1]

\* ------------------------------------------------------------ handles
ZeroHandle(z) == [init |-> FALSE, pt |-> z]
Encrypt(v) == [init |-> TRUE, pt |-> v]
\* FHE.isInitialized
isInitialized(h) == h.init
\* FHE.asEuint32
asEuint32(v) == Encrypt(v)
\* FHE.add with the sum replaced by its second operand
add_Assign(a, b) == Encrypt(b.pt)
\* FHE.add: an uninitialized operand counts as an encryption of 0.  The
\* counter is a euint32; the model stays far below 2^32.
add(a, b) == Encrypt(a.pt + b.pt)

VARIABLES
    dataCount,              \* uint256 dataCount
    encryptedSupplyData,    \* mapping(uint256 => EncryptedSupplyData)
    decryptedSupplyData,    \* mapping(uint256 => DecryptedSupplyData)
    encryptedMineralStats,  \* mapping(string => euint32)
    mineralTypeList,        \* string[]
    requestToDataId,        \* mapping(uint256 => uint256)
    counterRequest,         \* the oracle: the next request id it will issue
    requestedHandles,       \* the oracle: request id -> [selector, cts]
    DataSubmitted,          \* the log of DataSubmitted events: <<id, timestamp>>
    accepted                \* history: <<callback, request id>> -> callbacks accepted

VARIABLES
    chainData,              \* the store behind contract.getData / setData: key -> bytes
    provider,               \* per session: useState provider is not null
    account,                \* per session: useState account
    creating,               \* per session: useState creating
    records,                \* per session: useState records
    pc,                     \* per session: the await the running handler is at
    frame,                  \* per session: the locals of the running handler
    completed               \* history: record ids whose submitRecord call returned normally

dashboardVars ==
    <<chainData, provider, account, creating, records, pc, frame, completed>>

contractVars ==
    <<dataCount, encryptedSupplyData, decryptedSupplyData,
      encryptedMineralStats, mineralTypeList, requestToDataId>>
oracleVars == <<counterRequest, requestedHandles>>
ledgerVars == <<contractVars, oracleVars, DataSubmitted, accepted>>
vars == <<ledgerVars, dashboardVars>>

\* the default value of a storage slot
EmptyEncrypted ==
    [id |-> 0, encryptedMineralType |-> ZeroHandle(""),
     encryptedQuantity |-> ZeroHandle(0), encryptedOrigin |-> ZeroHandle(""),
     timestamp |-> 0]
EmptyDecrypted ==
    [mineralType |-> "", quantity |-> 0, origin |-> "", isAnalyzed |-> FALSE]
NoRequest == [selector |-> "", cts |-> <<>>]
\* the locals of a handler that is not running
NoFrame == [fn |-> "", recordId |-> "", data |-> <<>>, keys |-> <<>>, list |-> <<>>]

Init ==
    /\ dataCount = 0
    /\ encryptedSupplyData = [i \in DataIds |-> EmptyEncrypted]
    /\ decryptedSupplyData = [i \in DataIds |-> EmptyDecrypted]
    /\ encryptedMineralStats = [s \in Strings |-> ZeroHandle(0)]
    /\ mineralTypeList = <<>>
    /\ requestToDataId = [r \in RequestIds |-> 0]
    /\ counterRequest = 1
    /\ requestedHandles = [r \in RequestIds |-> NoRequest]
    /\ DataSubmitted = <<>>
    /\ accepted = [k \in Callbacks \X RequestIds |-> 0]
    /\ chainData = [k \in StoreKeys |-> EmptyBytes]
    /\ provider = [s \in Sessions |-> FALSE]
    /\ account = [s \in Sessions |-> ""]
    /\ creating = [s \in Sessions |-> FALSE]
    /\ records = [s \in Sessions |-> <<>>]
    /\ pc = [s \in Sessions |-> "load_keys"]
    /\ frame = [s \in Sessions |-> [NoFrame EXCEPT !.fn = "loadRecords"]]
    /\ completed = {}

\* a transaction that reverted: every variable is as before
Revert == UNCHANGED vars

\* the history of accepted callbacks, counted up to MaxAccepts
Accept(fn, requestId) ==
    accepted' = [accepted EXCEPT ![<<fn, requestId>>] =
                   IF @ < MaxAccepts THEN @ + 1 ELSE @]

\* ------------------------------------------------------------- oracle
\* FHE.requestDecryption: one new request id per call, the handles saved
requestDecryption(cts, selector) ==
    /\ counterRequest' = counterRequest + 1
    /\ requestedHandles' =
         [requestedHandles EXCEPT ![counterRequest] = [selector |-> selector, cts |-> cts]]

\* the request ids the oracle has issued so far
Issued == 1 .. (counterRequest - 1)

\* the plaintexts the oracle signs for a request: those of the saved handles
OracleCleartexts(requestId) ==
    LET cts == requestedHandles[requestId].cts IN
    [i \in 1 .. Len(cts) |-> cts[i].pt]

\* FHE.checkSignatures: the proof is the oracle's signature over the handles
\* saved for requestId and over cleartexts.  "signed" is the signature the
\* oracle made for requestId, "forged" is anything else.
checkSignatures(requestId, cleartexts, proof) ==
    /\ proof = "signed"
    /\ requestId \in Issued
    /\ cleartexts = OracleCleartexts(requestId)

\* abi.decode(cleartexts, (string, uint256, string)) reverts unless the
\* payload holds the three values (_FirstWordOnly: a decoder that reads one
\* word, as the one of decryptMineralStats does)
DecodesAsSupplyData_FirstWordOnly(cleartexts) == Len(cleartexts) >= 1
DecodesAsSupplyData(cleartexts) == Len(cleartexts) = 3
\* abi.decode(cleartexts, (uint32)) reads the first word and ignores the rest
DecodesAsUint32(cleartexts) == Len(cleartexts) >= 1

\* ------------------------------------------------------------- ledger
\* submitEncryptedSupplyData with the id read before the counter is advanced
submitEncryptedSupplyData_StaleId(encryptedMineralType, encryptedQuantity, encryptedOrigin, now) ==
    LET newId == dataCount IN
    /\ dataCount < MaxData
    /\ dataCount' = dataCount + 1
    /\ encryptedSupplyData' =
         [encryptedSupplyData EXCEPT ![newId] =
            [id |-> newId, encryptedMineralType |-> encryptedMineralType,
             encryptedQuantity |-> encryptedQuantity,
             encryptedOrigin |-> encryptedOrigin, timestamp |-> now]]
    /\ decryptedSupplyData' = [decryptedSupplyData EXCEPT ![newId] = EmptyDecrypted]
    /\ DataSubmitted' = Append(DataSubmitted, <<newId, now>>)
    /\ UNCHANGED <<encryptedMineralStats, mineralTypeList, requestToDataId,
                   oracleVars, accepted>>

\* submitEncryptedSupplyData without the write of the empty decrypted row
submitEncryptedSupplyData_NoPlaceholder(encryptedMineralType, encryptedQuantity, encryptedOrigin, now) ==
    LET newId == dataCount + 1 IN
    /\ dataCount < MaxData
    /\ dataCount' = newId
    /\ encryptedSupplyData' =
         [encryptedSupplyData EXCEPT ![newId] =
            [id |-> newId, encryptedMineralType |-> encryptedMineralType,
             encryptedQuantity |-> encryptedQuantity,
             encryptedOrigin |-> encryptedOrigin, timestamp |-> now]]
    /\ DataSubmitted' = Append(DataSubmitted, <<newId, now>>)
    /\ UNCHANGED <<decryptedSupplyData, encryptedMineralStats, mineralTypeList,
                   requestToDataId, oracleVars, accepted>>

submitEncryptedSupplyData(encryptedMineralType, encryptedQuantity, encryptedOrigin, now) ==
    LET newId == dataCount + 1 IN
    /\ dataCount < MaxData
    /\ dataCount' = newId
    /\ encryptedSupplyData' =
         [encryptedSupplyData EXCEPT ![newId] =
            [id |-> newId, encryptedMineralType |-> encryptedMineralType,
             encryptedQuantity |-> encryptedQuantity,
             encryptedOrigin |-> encryptedOrigin, timestamp |-> now]]
    /\ decryptedSupplyData' = [decryptedSupplyData EXCEPT ![newId] = EmptyDecrypted]
    /\ DataSubmitted' = Append(DataSubmitted, <<newId, now>>)
    /\ UNCHANGED <<encryptedMineralStats, mineralTypeList, requestToDataId,
                   oracleVars, accepted>>

\* requestSupplyAnalysis without its require
requestSupplyAnalysisOutcome_NoRequire(dataId) == "ok"

\* what requestSupplyAnalysis(dataId) answers: "ok" or the revert reason
requestSupplyAnalysisOutcome(dataId) ==
    IF decryptedSupplyData[dataId].isAnalyzed THEN "Already analyzed" ELSE "ok"

requestSupplyAnalysis(dataId) ==
    LET data == encryptedSupplyData[dataId]
        ciphertexts == <<data.encryptedMineralType, data.encryptedQuantity,
                         data.encryptedOrigin>>
    IN
    IF requestSupplyAnalysisOutcome(dataId) # "ok"
    THEN Revert
    ELSE /\ counterRequest <= MaxRequests
         /\ requestDecryption(ciphertexts, "analyzeSupplyChain")
         /\ requestToDataId' = [requestToDataId EXCEPT ![counterRequest] = dataId]
         /\ UNCHANGED <<dataCount, encryptedSupplyData, decryptedSupplyData,
                        encryptedMineralStats, mineralTypeList, DataSubmitted, accepted>>

\* analyzeSupplyChain without the call of FHE.checkSignatures
analyzeSupplyChainOutcome_NoSignatureCheck(requestId, cleartexts, proof) ==
    LET dataId == requestToDataId[requestId] IN
    IF dataId = 0 THEN "Invalid request"
    ELSE IF decryptedSupplyData[dataId].isAnalyzed THEN "Already analyzed"
    ELSE IF ~DecodesAsSupplyData(cleartexts) THEN "MalformedPayload"
    ELSE "ok"

\* analyzeSupplyChain with one slot for the latest request instead of the
\* mapping requestToDataId: an older request id is no longer known
analyzeSupplyChainOutcome_LatestOnly(requestId, cleartexts, proof) ==
    LET dataId == IF requestId = counterRequest - 1 THEN requestToDataId[requestId] ELSE 0 IN
    IF dataId = 0 THEN "Invalid request"
    ELSE IF decryptedSupplyData[dataId].isAnalyzed THEN "Already analyzed"
    ELSE IF ~checkSignatures(requestId, cleartexts, proof) THEN "InvalidProof"
    ELSE IF ~DecodesAsSupplyData(cleartexts) THEN "MalformedPayload"
    ELSE "ok"

\* what analyzeSupplyChain(requestId, cleartexts, proof) answers
analyzeSupplyChainOutcome(requestId, cleartexts, proof) ==
    LET dataId == requestToDataId[requestId] IN
    IF dataId = 0 THEN "Invalid request"
    ELSE IF decryptedSupplyData[dataId].isAnalyzed THEN "Already analyzed"
    ELSE IF ~checkSignatures(requestId, cleartexts, proof) THEN "InvalidProof"
    ELSE IF ~DecodesAsSupplyData(cleartexts) THEN "MalformedPayload"
    ELSE "ok"

\* the catalog after a disclosure of mineralType is analyzed, with the
\* isInitialized test left out
pushMineralType_Always(mineralType) == Append(mineralTypeList, mineralType)

\* the catalog after a disclosure of mineralType is analyzed, with the new
\* mineral type put in front
pushMineralType_Front(mineralType) ==
    IF isInitialized(encryptedMineralStats[mineralType]) = FALSE
    THEN <<mineralType>> \o mineralTypeList
    ELSE mineralTypeList

\* the catalog after a disclosure of mineralType is analyzed, with the push
\* left out
pushMineralType_Never(mineralType) == mineralTypeList

\* the catalog after a disclosure of mineralType is analyzed
pushMineralType(mineralType) ==
    IF isInitialized(encryptedMineralStats[mineralType]) = FALSE
    THEN Append(mineralTypeList, mineralType)
    ELSE mineralTypeList

\* analyzeSupplyChain without the write of the isAnalyzed flag
analyzeSupplyChain_FlagNotSet(requestId, cleartexts, proof) ==
    IF analyzeSupplyChainOutcome(requestId, cleartexts, proof) # "ok"
    THEN Revert
    ELSE LET dataId == requestToDataId[requestId]
             mineralType == cleartexts[1]
             fresh == isInitialized(encryptedMineralStats[mineralType]) = FALSE
             stats == IF fresh THEN asEuint32(0) ELSE encryptedMineralStats[mineralType]
         IN
         /\ decryptedSupplyData' =
              [decryptedSupplyData EXCEPT ![dataId] =
                 [mineralType |-> mineralType, quantity |-> cleartexts[2],
                  origin |-> cleartexts[3], isAnalyzed |-> FALSE]]
         /\ mineralTypeList' = pushMineralType(mineralType)
         /\ encryptedMineralStats' =
              [encryptedMineralStats EXCEPT ![mineralType] = add(stats, asEuint32(1))]
         /\ Accept("analyzeSupplyChain", requestId)
         /\ UNCHANGED <<dataCount, encryptedSupplyData, requestToDataId, oracleVars,
                        DataSubmitted>>

analyzeSupplyChain(requestId, cleartexts, proof) ==
    IF analyzeSupplyChainOutcome(requestId, cleartexts, proof) # "ok"
    THEN Revert
    ELSE LET dataId == requestToDataId[requestId]
             mineralType == cleartexts[1]
             quantity == cleartexts[2]
             origin == cleartexts[3]
             fresh == isInitialized(encryptedMineralStats[mineralType]) = FALSE
             stats == IF fresh THEN asEuint32(0) ELSE encryptedMineralStats[mineralType]
         IN
         /\ decryptedSupplyData' =
              [decryptedSupplyData EXCEPT ![dataId] =
                 [mineralType |-> mineralType, quantity |-> quantity,
                  origin |-> origin, isAnalyzed |-> TRUE]]
         /\ mineralTypeList' = pushMineralType(mineralType)
         /\ encryptedMineralStats' =
              [encryptedMineralStats EXCEPT ![mineralType] = add(stats, asEuint32(1))]
         /\ Accept("analyzeSupplyChain", requestId)
         /\ UNCHANGED <<dataCount, encryptedSupplyData, requestToDataId, oracleVars,
                        DataSubmitted>>

\* the storage analyzeSupplyChain reads and writes
Storage ==
    [decryptedSupplyData |-> decryptedSupplyData,
     encryptedMineralStats |-> encryptedMineralStats,
     mineralTypeList |-> mineralTypeList]

\* the requires of analyzeSupplyChain with one isAnalyzed flag for the whole
\* ledger instead of one per row
analyzeSupplyChainOutcomeIn_AnyAnalyzed(st, requestId, cleartexts, proof) ==
    LET dataId == requestToDataId[requestId] IN
    IF dataId = 0 THEN "Invalid request"
    ELSE IF \E i \in DataIds : st.decryptedSupplyData[i].isAnalyzed THEN "Already analyzed"
    ELSE IF ~checkSignatures(requestId, cleartexts, proof) THEN "InvalidProof"
    ELSE IF ~DecodesAsSupplyData(cleartexts) THEN "MalformedPayload"
    ELSE "ok"

\* what analyzeSupplyChain(requestId, cleartexts, proof) answers when the
\* contract's storage is st (the request table and the oracle as they are)
analyzeSupplyChainOutcomeIn(st, requestId, cleartexts, proof) ==
    LET dataId == requestToDataId[requestId] IN
    IF dataId = 0 THEN "Invalid request"
    ELSE IF st.decryptedSupplyData[dataId].isAnalyzed THEN "Already analyzed"
    ELSE IF ~checkSignatures(requestId, cleartexts, proof) THEN "InvalidProof"
    ELSE IF ~DecodesAsSupplyData(cleartexts) THEN "MalformedPayload"
    ELSE "ok"

\* the storage after an accepted analyzeSupplyChain for dataId with the
\* decoded cleartexts, when the storage before it is st
analyzeWrites(st, dataId, cleartexts) ==
    LET mineralType == cleartexts[1]
        quantity == cleartexts[2]
        origin == cleartexts[3]
        fresh == isInitialized(st.encryptedMineralStats[mineralType]) = FALSE
        stats == IF fresh THEN asEuint32(0) ELSE st.encryptedMineralStats[mineralType]
    IN
    [decryptedSupplyData |->
        [st.decryptedSupplyData EXCEPT ![dataId] =
           [mineralType |-> mineralType, quantity |-> quantity,
            origin |-> origin, isAnalyzed |-> TRUE]],
     encryptedMineralStats |->
        [st.encryptedMineralStats EXCEPT ![mineralType] = add(stats, asEuint32(1))],
     mineralTypeList |->
        IF fresh THEN Append(st.mineralTypeList, mineralType) ELSE st.mineralTypeList]

getDecryptedSupplyData(dataId) == decryptedSupplyData[dataId]

\* ---------------------------------------------------------- aggregates
getEncryptedMineralStats(mineralType) == encryptedMineralStats[mineralType]

\* requestMineralStatsDecryption without its require
requestMineralStatsDecryptionOutcome_NoRequire(mineralType) == "ok"

\* what requestMineralStatsDecryption(mineralType) answers
requestMineralStatsDecryptionOutcome(mineralType) ==
    IF ~isInitialized(encryptedMineralStats[mineralType])
    THEN "Mineral type not found" ELSE "ok"

requestMineralStatsDecryption(mineralType) ==
    LET stats == encryptedMineralStats[mineralType] IN
    IF requestMineralStatsDecryptionOutcome(mineralType) # "ok"
    THEN Revert
    ELSE /\ counterRequest <= MaxRequests
         /\ requestDecryption(<<stats>>, "decryptMineralStats")
         /\ requestToDataId' =
              [requestToDataId EXCEPT ![counterRequest] = bytes32ToUint(keccak256(mineralType))]
         /\ UNCHANGED <<dataCount, encryptedSupplyData, decryptedSupplyData,
                        encryptedMineralStats, mineralTypeList, DataSubmitted, accepted>>

\* the first catalog entry whose hash is `hash`; NotFound stands for the revert
NotFound == [found |-> FALSE, mineralType |-> ""]
\* getMineralTypeFromHash without the revert after the loop
getMineralTypeFromHash_NoRevert(hash) == [found |-> TRUE, mineralType |-> ""]

\* getMineralTypeFromHash with the loop started one entry late
getMineralTypeFromHash_SkipsFirst(hash) ==
    LET hits == {i \in 2 .. Len(mineralTypeList) :
                   bytes32ToUint(keccak256(mineralTypeList[i])) = hash}
    IN
    IF hits = {} THEN NotFound
    ELSE [found |-> TRUE,
          mineralType |-> mineralTypeList[CHOOSE i \in hits : \A j \in hits : i <= j]]

getMineralTypeFromHash(hash) ==
    LET hits == {i \in 1 .. Len(mineralTypeList) :
                   bytes32ToUint(keccak256(mineralTypeList[i])) = hash}
    IN
    IF hits = {} THEN NotFound
    ELSE [found |-> TRUE,
          mineralType |-> mineralTypeList[CHOOSE i \in hits : \A j \in hits : i <= j]]

\* what decryptMineralStats(requestId, cleartexts, proof) answers
decryptMineralStatsOutcome(requestId, cleartexts, proof) ==
    LET mineralHash == requestToDataId[requestId] IN
    IF ~getMineralTypeFromHash(mineralHash).found THEN "Mineral type not found"
    ELSE IF ~checkSignatures(requestId, cleartexts, proof) THEN "InvalidProof"
    ELSE IF ~DecodesAsUint32(cleartexts) THEN "MalformedPayload"
    ELSE "ok"

\* decryptMineralStats that starts the counter again once it was decrypted
decryptMineralStats_ResetsCounter(requestId, cleartexts, proof) ==
    IF decryptMineralStatsOutcome(requestId, cleartexts, proof) # "ok"
    THEN Revert
    ELSE LET mineralType == getMineralTypeFromHash(requestToDataId[requestId]).mineralType IN
         /\ encryptedMineralStats' =
              [encryptedMineralStats EXCEPT ![mineralType] = asEuint32(0)]
         /\ Accept("decryptMineralStats", requestId)
         /\ UNCHANGED <<dataCount, encryptedSupplyData, decryptedSupplyData,
                        mineralTypeList, requestToDataId, oracleVars, DataSubmitted>>

decryptMineralStats(requestId, cleartexts, proof) ==
    IF decryptMineralStatsOutcome(requestId, cleartexts, proof) # "ok"
    THEN Revert
    ELSE /\ Accept("decryptMineralStats", requestId)
         /\ UNCHANGED <<contractVars, oracleVars, DataSubmitted>>

\* ---------------------------------------------------------- reporting
\* the inner loop of calculateSupplyRisk without its break
RECURSIVE regionLoop_NoBreak(_, _, _)
regionLoop_NoBreak(i, highRiskRegions, j) ==
    IF j > Len(highRiskRegions) THEN 0
    ELSE (IF keccak256(decryptedSupplyData[i].origin) = keccak256(highRiskRegions[j])
          THEN decryptedSupplyData[i].quantity ELSE 0)
         + regionLoop_NoBreak(i, highRiskRegions, j + 1)

\* what the inner loop adds to highRiskQuantity for row i, from entry j of
\* highRiskRegions on (entries are numbered from 1 here): the quantity, once,
\* at the first entry that is the row's origin
RECURSIVE regionLoop(_, _, _)
regionLoop(i, highRiskRegions, j) ==
    IF j > Len(highRiskRegions) THEN 0
    ELSE IF keccak256(decryptedSupplyData[i].origin) = keccak256(highRiskRegions[j])
         THEN decryptedSupplyData[i].quantity
         ELSE regionLoop(i, highRiskRegions, j + 1)

\* the outer loop from row i on: <<totalQuantity, highRiskQuantity>>
RECURSIVE riskLoop(_, _, _, _, _)
riskLoop(mineralType, highRiskRegions, i, totalQuantity, highRiskQuantity) ==
    IF i > dataCount THEN <<totalQuantity, highRiskQuantity>>
    ELSE IF /\ decryptedSupplyData[i].isAnalyzed
            /\ keccak256(decryptedSupplyData[i].mineralType) = keccak256(mineralType)
         THEN riskLoop(mineralType, highRiskRegions, i + 1,
                       totalQuantity + decryptedSupplyData[i].quantity,
                       highRiskQuantity + regionLoop(i, highRiskRegions, 1))
         ELSE riskLoop(mineralType, highRiskRegions, i + 1, totalQuantity, highRiskQuantity)

\* quantities are plaintexts of euint32 handles and the sums are uint256:
\* no sum of the ledger's rows overflows
calculateSupplyRisk(mineralType, highRiskRegions) ==
    LET sums == riskLoop(mineralType, highRiskRegions, 1, 0, 0)
        totalQuantity == sums[1]
        highRiskQuantity == sums[2]
    IN
    IF totalQuantity > 0 THEN (highRiskQuantity * 100) \div totalQuantity ELSE 0

\* the inner loop of getCriticalMineralSummary stopped one row early
RECURSIVE quantityLoop_SkipsLast(_, _, _)
quantityLoop_SkipsLast(mineralType, j, total) ==
    IF j >= dataCount THEN total
    ELSE quantityLoop_SkipsLast(mineralType, j + 1,
            IF /\ decryptedSupplyData[j].isAnalyzed
               /\ keccak256(decryptedSupplyData[j].mineralType) = keccak256(mineralType)
            THEN total + decryptedSupplyData[j].quantity ELSE total)

\* the inner loop of getCriticalMineralSummary from row j on: the entry of
\* totalQuantities for mineralType
RECURSIVE quantityLoop(_, _, _)
quantityLoop(mineralType, j, total) ==
    IF j > dataCount THEN total
    ELSE quantityLoop(mineralType, j + 1,
            IF /\ decryptedSupplyData[j].isAnalyzed
               /\ keccak256(decryptedSupplyData[j].mineralType) = keccak256(mineralType)
            THEN total + decryptedSupplyData[j].quantity ELSE total)

getCriticalMineralSummary ==
    [minerals |-> [i \in 1 .. Len(mineralTypeList) |-> mineralTypeList[i]],
     totalQuantities |->
        [i \in 1 .. Len(mineralTypeList) |-> quantityLoop(mineralTypeList[i], 1, 0)]]

\* ------------------------------------------------------------ callers
\* what a caller can hand a callback for a request id: the payload the
\* oracle signed for it, or a payload of the caller's own making
ForgedCleartexts == {<<7>>}
Cleartexts(requestId) == {OracleCleartexts(requestId)} \cup ForgedCleartexts
Proofs == {"signed", "forged"}

Next ==
    \/ /\ \E s \in Submissions, t \in Timestamps :
            submitEncryptedSupplyData(Encrypt(s[1]), Encrypt(s[2]), Encrypt(s[3]), t)
       /\ UNCHANGED dashboardVars
    \/ /\ \E dataId \in CallerDataIds : requestSupplyAnalysis(dataId)
       /\ UNCHANGED dashboardVars
    \/ /\ \E r \in RequestIds, p \in Proofs :
            \E c \in Cleartexts(r) : analyzeSupplyChain(r, c, p)
       /\ UNCHANGED dashboardVars
    \/ /\ \E m \in MineralTypes \cup {""} : requestMineralStatsDecryption(m)
       /\ UNCHANGED dashboardVars
    \/ /\ \E r \in RequestIds, p \in Proofs :
            \E c \in Cleartexts(r) : decryptMineralStats(r, c, p)
       /\ UNCHANGED dashboardVars

Spec == Init /\ [][Next]_vars

\* The ledger's runs for the reporting queries, which read dataCount and the
\* rows only: submissions that share a mineral type and differ in quantity
\* and origin, every analysis request and every analysis callback.  (The
\* two functions left out write neither dataCount nor a row.)
RiskSubmissions == {<<"Cobalt", 10, "A">>, <<"Cobalt", 20, "B">>, <<"Lithium", 30, "A">>}
NextRisk ==
    \/ /\ \E s \in RiskSubmissions, t \in Timestamps :
            submitEncryptedSupplyData(Encrypt(s[1]), Encrypt(s[2]), Encrypt(s[3]), t)
       /\ UNCHANGED dashboardVars
    \/ /\ \E dataId \in CallerDataIds : requestSupplyAnalysis(dataId)
       /\ UNCHANGED dashboardVars
    \/ /\ \E r \in RequestIds, p \in Proofs :
            \E c \in Cleartexts(r) : analyzeSupplyChain(r, c, p)
       /\ UNCHANGED dashboardVars

SpecRisk == Init /\ [][NextRisk]_vars

\* ---------------------------------------------------------- dashboard
\* contract.getData(key)
getData(key) == chainData[key]
\* contract.setData(key, value): the store after the transaction
setData(key, value) == [chainData EXCEPT ![key] = value]
\* the keys array a handler parses from supply_keys ([] when the key is unset)
readKeys == 
    LET keysBytes == getData("supply_keys") IN
    IF Len(keysBytes) > 0 THEN parseJson(keysBytes) ELSE <<>>
\* Math.floor(Date.now() / 1000)
DashTimestamps == {1000}
\* `FHE-${btoa(JSON.stringify(newRecordData))}`
fheEncrypt(form) == <<"FHE", form>>
\* the ids a running submitRecord holds or the store has a record for: the
\* time and the random suffix make a new id differ from these
UsedIds ==
    {id \in RecordIds : Len(getData(supplyKey(id))) > 0}
      \cup {frame[s].recordId : s \in {t \in Sessions : frame[t].fn = "submitRecord"}}

\* a handler returns: the finally block of submitRecord clears creating
finish(s) ==
    /\ pc' = [pc EXCEPT ![s] = "idle"]
    /\ frame' = [frame EXCEPT ![s] = NoFrame]
    /\ creating' = [creating EXCEPT ![s] =
                      IF frame[s].fn = "submitRecord" THEN FALSE ELSE @]

onWalletSelect(s) ==
    /\ provider' = [provider EXCEPT ![s] = TRUE]
    /\ account' = [account EXCEPT ![s] = walletAccount(s)]
    /\ UNCHANGED <<ledgerVars, chainData, creating, records, pc, frame, completed>>

onDisconnect(s) ==
    /\ provider' = [provider EXCEPT ![s] = FALSE]
    /\ account' = [account EXCEPT ![s] = ""]
    /\ UNCHANGED <<ledgerVars, chainData, creating, records, pc, frame, completed>>

\* submitRecord up to its first await on the store
submitRecord(s, recordId, riskScore, now) ==
    /\ pc[s] = "idle"
    /\ recordId \notin UsedIds
    /\ IF ~provider[s]
       THEN UNCHANGED vars
       ELSE /\ creating' = [creating EXCEPT ![s] = TRUE]
            /\ frame' = [frame EXCEPT ![s] =
                 [NoFrame EXCEPT
                    !.fn = "submitRecord",
                    !.recordId = recordId,
                    !.data = [data |-> fheEncrypt(newRecordData),
                              timestamp |-> now,
                              supplier |-> account[s],
                              mineralType |-> newRecordData.mineralType,
                              quantity |-> parseIntOr0(newRecordData.quantity),
                              originCountry |-> newRecordData.originCountry,
                              status |-> "pending",
                              riskScore |-> riskScore]]]
            /\ pc' = [pc EXCEPT ![s] = "submit_setRecord"]
            /\ UNCHANGED <<ledgerVars, chainData, provider, account, records, completed>>

\* await contract.setData(`supply_${recordId}`, ...)
submitSetRecord(s) ==
    /\ pc[s] = "submit_setRecord"
    /\ chainData' = setData(supplyKey(frame[s].recordId), toUtf8Bytes(frame[s].data))
    /\ pc' = [pc EXCEPT ![s] = "submit_getKeys"]
    /\ UNCHANGED <<ledgerVars, provider, account, creating, records, frame, completed>>

\* await contract.getData("supply_keys") and the parse of the answer
submitGetKeys(s) ==
    /\ pc[s] = "submit_getKeys"
    /\ frame' = [frame EXCEPT ![s].keys = readKeys]
    /\ pc' = [pc EXCEPT ![s] = "submit_setKeys"]
    /\ UNCHANGED <<ledgerVars, chainData, provider, account, creating, records, completed>>

\* keys.push(recordId); await contract.setData("supply_keys", ...); then
\* loadRecords starts
submitSetKeys(s) ==
    /\ pc[s] = "submit_setKeys"
    /\ chainData' = setData("supply_keys",
                            toUtf8Bytes(Append(frame[s].keys, frame[s].recordId)))
    /\ frame' = [frame EXCEPT ![s].keys = <<>>]
    /\ pc' = [pc EXCEPT ![s] = "load_keys"]
    /\ UNCHANGED <<ledgerVars, provider, account, creating, records, completed>>

\* an awaited call of submitRecord or assessRiskWithFHE rejects (the
\* transaction is refused, the node fails): the catch block, then finally
handlerThrows(s) ==
    /\ pc[s] \in {"submit_setRecord", "submit_getKeys", "submit_setKeys",
                  "assess_getRecord", "assess_setRecord"}
    /\ finish(s)
    /\ UNCHANGED <<ledgerVars, chainData, provider, account, records, completed>>

\* newRiskScore > 70 ? "flagged" : "verified" with the comparison >= 70
newStatus_AtLeast70(newRiskScore) == IF newRiskScore >= 70 THEN "flagged" ELSE "verified"
\* newRiskScore > 70 ? "flagged" : "verified"
newStatus(newRiskScore) == IF newRiskScore > 70 THEN "flagged" ELSE "verified"

\* assessRiskWithFHE(recordId), called from the row or the detail pane of
\* a record the session lists, up to its first await on the store
assessRiskWithFHE(s, recordId) ==
    /\ pc[s] = "idle"
    /\ \E i \in 1 .. Len(records[s]) : records[s][i].id = recordId
    /\ IF ~provider[s]
       THEN UNCHANGED vars
       ELSE /\ frame' = [frame EXCEPT ![s] =
                 [NoFrame EXCEPT !.fn = "assessRiskWithFHE", !.recordId = recordId]]
            /\ pc' = [pc EXCEPT ![s] = "assess_getRecord"]
            /\ UNCHANGED <<ledgerVars, chainData, provider, account, creating, records,
                           completed>>

\* await contract.getData(`supply_${recordId}`), the new score and status
assessGetRecord(s, newRiskScore) ==
    /\ pc[s] = "assess_getRecord"
    /\ LET recordBytes == getData(supplyKey(frame[s].recordId)) IN
       IF Len(recordBytes) = 0
       THEN finish(s)
       ELSE /\ frame' = [frame EXCEPT ![s].data =
                 [parseJson(recordBytes) EXCEPT
                    !.status = newStatus(newRiskScore),
                    !.riskScore = newRiskScore]]
            /\ pc' = [pc EXCEPT ![s] = "assess_setRecord"]
            /\ UNCHANGED creating
    /\ UNCHANGED <<ledgerVars, chainData, provider, account, records, completed>>

\* await contract.setData(`supply_${recordId}`, ...); then loadRecords starts
assessSetRecord(s) ==
    /\ pc[s] = "assess_setRecord"
    /\ chainData' = setData(supplyKey(frame[s].recordId), toUtf8Bytes(frame[s].data))
    /\ frame' = [frame EXCEPT ![s].data = <<>>]
    /\ pc' = [pc EXCEPT ![s] = "load_keys"]
    /\ UNCHANGED <<ledgerVars, provider, account, creating, records, completed>>

\* the Refresh button: loadRecords on its own
refresh(s) ==
    /\ pc[s] = "idle"
    /\ frame' = [frame EXCEPT ![s] = [NoFrame EXCEPT !.fn = "loadRecords"]]
    /\ pc' = [pc EXCEPT ![s] = "load_keys"]
    /\ UNCHANGED <<ledgerVars, chainData, provider, account, creating, records, completed>>

\* the handler that awaits loadRecords returns
returns(s) ==
    /\ finish(s)
    /\ completed' = IF frame[s].fn = "submitRecord"
                    THEN completed \cup {frame[s].recordId} ELSE completed

\* loadRecords: await contract.getData("supply_keys") and the parse
loadKeys(s) ==
    /\ pc[s] = "load_keys"
    /\ frame' = [frame EXCEPT ![s].keys = readKeys, ![s].list = <<>>]
    /\ pc' = [pc EXCEPT ![s] = "load_record"]
    /\ UNCHANGED <<ledgerVars, chainData, provider, account, creating, records, completed>>

\* loadRecords returns before it read the keys (no contract, the contract
\* is not available, or the read throws): records stay as they are
loadReturnsEarly(s) ==
    /\ pc[s] = "load_keys"
    /\ returns(s)
    /\ UNCHANGED <<ledgerVars, chainData, provider, account, records>>

\* the row loadRecords makes of a stored record: its id and the timestamp
\* the list is sorted by (the other fields of a row are only displayed)
listRecord(key, recordData) == [id |-> key, timestamp |-> recordData.timestamp]

\* loadRecords: one turn of the loop over keys
loadRecord(s) ==
    /\ pc[s] = "load_record"
    /\ frame[s].keys # <<>>
    /\ LET key == Head(frame[s].keys)
           recordBytes == getData(supplyKey(key))
       IN frame' = [frame EXCEPT
                      ![s].keys = Tail(@),
                      ![s].list = IF Len(recordBytes) > 0
                                  THEN Append(@, listRecord(key, parseJson(recordBytes)))
                                  ELSE @]
    /\ UNCHANGED <<ledgerVars, chainData, provider, account, creating, records, pc,
                   completed>>

\* list.sort((a, b) => b.timestamp - a.timestamp): stable, newest first
insertByTimestamp(sorted, r) ==
    LET k == Cardinality({i \in 1 .. Len(sorted) : sorted[i].timestamp >= r.timestamp})
    IN SubSeq(sorted, 1, k) \o <<r>> \o SubSeq(sorted, k + 1, Len(sorted))
RECURSIVE sortByTimestamp(_)
sortByTimestamp(list) ==
    IF list = <<>> THEN <<>>
    ELSE insertByTimestamp(sortByTimestamp(SubSeq(list, 1, Len(list) - 1)),
                           list[Len(list)])

\* loadRecords: the sort and setRecords, and the awaiting handler returns
loadDone(s) ==
    /\ pc[s] = "load_record"
    /\ frame[s].keys = <<>>
    /\ records' = [records EXCEPT ![s] = sortByTimestamp(frame[s].list)]
    /\ returns(s)
    /\ UNCHANGED <<ledgerVars, chainData, provider, account>>

NextDash ==
    \/ \E s \in Sessions : onWalletSelect(s)
    \/ \E s \in Sessions : onDisconnect(s)
    \/ \E s \in Sessions, id \in RecordIds, score \in RiskScores, now \in DashTimestamps :
         submitRecord(s, id, score, now)
    \/ \E s \in Sessions : submitSetRecord(s)
    \/ \E s \in Sessions : submitGetKeys(s)
    \/ \E s \in Sessions : submitSetKeys(s)
    \/ \E s \in Sessions : handlerThrows(s)
    \/ \E s \in Sessions, id \in RecordIds : assessRiskWithFHE(s, id)
    \/ \E s \in Sessions, score \in RiskScores : assessGetRecord(s, score)
    \/ \E s \in Sessions : assessSetRecord(s)
    \/ \E s \in Sessions : refresh(s)
    \/ \E s \in Sessions : loadKeys(s)
    \/ \E s \in Sessions : loadReturnsEarly(s)
    \/ \E s \in Sessions : loadRecord(s)
    \/ \E s \in Sessions : loadDone(s)

SpecDash == Init /\ [][NextDash]_vars

\* ============================================================== claims
selectorOf(r) == requestedHandles[r].selector
\* a step that changes the state (a call that reverts changes nothing; the
\* step properties below are stated for the steps that change something)
Changed == vars' # vars
CallbackInputs(r) == {<<c, p>> : c \in Cleartexts(r), p \in Proofs}
\* every request so far was made over handles that had been written
WrittenHandlesOnly ==
    \A r \in Issued :
        \A i \in 1 .. Len(requestedHandles[r].cts) : requestedHandles[r].cts[i].init

\* C1: the k-th submit is assigned id k: the ids handed out (the DataSubmitted
\* log, in call order) are exactly 1..n, dataCount is the number of submits,
\* the record stored under id k carries id k and no other slot (0 included)
\* carries an id.
C1_IdsInCallOrder ==
    /\ Len(DataSubmitted) = dataCount
    /\ \A k \in 1 .. Len(DataSubmitted) : DataSubmitted[k][1] = k
    /\ \A i \in DataIds :
         encryptedSupplyData[i].id = (IF i \in 1 .. dataCount THEN i ELSE 0)

\* two submits, with a decryption request in between or around them
C1_Witness ==
    /\ Len(DataSubmitted) = 2
    /\ DataSubmitted[2][1] = 2
    /\ encryptedSupplyData[2].id = 2
    /\ counterRequest > 1

\* C2: a RevealedDisclosure is resolved at most once: once isAnalyzed is set
\* for an id, no later step clears it or changes its plaintext fields.
C2_ResolvedOnce ==
    [][\A id \in DataIds :
         decryptedSupplyData[id].isAnalyzed =>
            decryptedSupplyData'[id] = decryptedSupplyData[id]]_vars

\* C3: once analyzeSupplyChain has accepted a disclosure-analysis request id,
\* every later analyzeSupplyChain call with that request id answers
\* "Invalid request" (UnknownRequest) and so changes nothing.
C3_ReplayIsUnknownRequest ==
    \A r \in Issued :
        (selectorOf(r) = "analyzeSupplyChain" /\ accepted[<<"analyzeSupplyChain", r>>] >= 1) =>
            \A in \in CallbackInputs(r) :
                analyzeSupplyChainOutcome(r, in[1], in[2]) = "Invalid request"

\* C4: a request id issued by requestMineralStatsDecryption is consumed by
\* its first accepted decryptMineralStats callback: it is never accepted
\* twice.  (Stated for the runs in which every request was made for a
\* submitted disclosure or a counted mineral type.)
C4_AggregateTokenConsumed ==
    WrittenHandlesOnly =>
        \A r \in Issued :
            selectorOf(r) = "decryptMineralStats" =>
                accepted[<<"decryptMineralStats", r>>] <= 1

\* C5: disclosure requests and aggregate requests never share a target key,
\* a request id issued for an aggregate is never accepted by
\* analyzeSupplyChain, and a request id issued for a disclosure is never
\* accepted by decryptMineralStats.
C5_NamespacesDisjoint ==
    \A r \in Issued :
        /\ selectorOf(r) = "decryptMineralStats" =>
              accepted[<<"analyzeSupplyChain", r>>] = 0
        /\ selectorOf(r) = "analyzeSupplyChain" =>
              accepted[<<"decryptMineralStats", r>>] = 0
        /\ \A r2 \in Issued :
              (selectorOf(r) = "analyzeSupplyChain" /\ selectorOf(r2) = "decryptMineralStats")
                 => requestToDataId[r] # requestToDataId[r2]

\* C6: requestSupplyAnalysis on an id that is already analyzed answers
\* "Already analyzed", and the call registers no request id and changes
\* nothing else.
C6_AnalyzedIdNotRequested ==
    /\ [](\A id \in DataIds :
            decryptedSupplyData[id].isAnalyzed =>
               requestSupplyAnalysisOutcome(id) = "Already analyzed")
    /\ [][Changed => \A id \in DataIds :
            (decryptedSupplyData[id].isAnalyzed /\ requestSupplyAnalysis(id)) =>
               UNCHANGED vars]_vars

\* an analyzed id a caller can ask for again while the oracle could still
\* issue a request id
C6_Witness ==
    \E id \in CallerDataIds :
        /\ decryptedSupplyData[id].isAnalyzed
        /\ counterRequest <= MaxRequests
        /\ requestSupplyAnalysisOutcome(id) = "Already analyzed"

\* C7: requestSupplyAnalysis for an id that is no submitted disclosure (0, or
\* above dataCount) fails: it registers no request id.
C7_RequestNeedsDisclosure ==
    [][\A id \in DataIds \ (1 .. dataCount) :
         requestSupplyAnalysis(id) => UNCHANGED <<requestToDataId, oracleVars>>]_vars

\* C8: a callback whose proof does not verify for the request id and the
\* payload is rejected and changes nothing; the rejection is InvalidProof
\* when the request id is registered for an unresolved target (disclosure
\* callback) or for a catalogued mineral type (aggregate callback), also
\* when the payload decodes.
C8_InvalidProofRejected ==
    /\ [](\A r \in RequestIds : \A in \in CallbackInputs(r) :
            ~checkSignatures(r, in[1], in[2]) =>
               /\ analyzeSupplyChainOutcome(r, in[1], in[2]) # "ok"
               /\ decryptMineralStatsOutcome(r, in[1], in[2]) # "ok"
               /\ (requestToDataId[r] # 0 /\ ~decryptedSupplyData[requestToDataId[r]].isAnalyzed)
                     => analyzeSupplyChainOutcome(r, in[1], in[2]) = "InvalidProof"
               /\ getMineralTypeFromHash(requestToDataId[r]).found
                     => decryptMineralStatsOutcome(r, in[1], in[2]) = "InvalidProof")
    /\ [][Changed => \A r \in RequestIds : \A in \in CallbackInputs(r) :
            (/\ ~checkSignatures(r, in[1], in[2])
             /\ (analyzeSupplyChain(r, in[1], in[2]) \/ decryptMineralStats(r, in[1], in[2])))
               => UNCHANGED vars]_vars

\* a request id registered for a submitted, unresolved disclosure, whose
\* signed payload decodes, handed in with a forged proof
C8_Witness ==
    \E r \in Issued :
        /\ requestToDataId[r] \in 1 .. dataCount
        /\ ~decryptedSupplyData[requestToDataId[r]].isAnalyzed
        /\ DecodesAsSupplyData(OracleCleartexts(r))
        /\ ~checkSignatures(r, OracleCleartexts(r), "forged")
        /\ analyzeSupplyChainOutcome(r, OracleCleartexts(r), "forged") = "InvalidProof"

\* C9: a callback with a request id the oracle never issued fails at the
\* lookup, through either callback (analyzeSupplyChain: "Invalid request";
\* decryptMineralStats: the lookup of the mineral type reverts), and changes
\* nothing.
C9_UnissuedTokenRejected ==
    /\ [](\A r \in RequestIds \ Issued : \A in \in CallbackInputs(r) :
            /\ analyzeSupplyChainOutcome(r, in[1], in[2]) = "Invalid request"
            /\ decryptMineralStatsOutcome(r, in[1], in[2]) = "Mineral type not found")
    /\ [][Changed => \A r \in RequestIds \ Issued : \A in \in CallbackInputs(r) :
            (analyzeSupplyChain(r, in[1], in[2]) \/ decryptMineralStats(r, in[1], in[2]))
               => UNCHANGED vars]_vars

\* a request id was never issued while requests are pending and the catalog
\* is not empty, so that both callbacks have something they could resolve
C9_Witness ==
    /\ RequestIds \ Issued # {}
    /\ mineralTypeList # <<>>
    /\ \E r \in Issued : requestToDataId[r] # 0
    /\ \A r \in RequestIds \ Issued :
         decryptMineralStatsOutcome(r, <<7>>, "signed") = "Mineral type not found"

\* C10: the catalog never holds a mineral type twice.
C10_CatalogNoDuplicates ==
    \A i, j \in 1 .. Len(mineralTypeList) :
        i # j => mineralTypeList[i] # mineralTypeList[j]

\* two disclosures analyzed with the same mineral type, listed once
C10_Witness ==
    \E i, j \in 1 .. dataCount :
        /\ i # j
        /\ decryptedSupplyData[i].isAnalyzed
        /\ decryptedSupplyData[j].isAnalyzed
        /\ decryptedSupplyData[i].mineralType = decryptedSupplyData[j].mineralType
        /\ encryptedMineralStats[decryptedSupplyData[i].mineralType].pt = 2
        /\ Len(SelectSeq(mineralTypeList,
                         LAMBDA m : m = decryptedSupplyData[i].mineralType)) = 1

\* C11: for every mineral type, the plaintext of its encrypted counter is the
\* number of rows currently analyzed with that mineral type.
C11_CounterCountsResolved ==
    \A c \in Strings :
        encryptedMineralStats[c].pt =
            Cardinality({i \in DataIds :
                           /\ decryptedSupplyData[i].isAnalyzed
                           /\ decryptedSupplyData[i].mineralType = c})

\* C12: requestMineralStatsDecryption(mineralType) answers "Mineral type not
\* found" (UnknownCategory) and changes nothing when the counter of
\* mineralType is not initialized; when it is initialized the call succeeds
\* and registers the next request id under the hash of mineralType, for the
\* decryptMineralStats callback, over the counter's handle.
C12_UnknownCategoryRejected ==
    /\ [](\A m \in Strings :
            requestMineralStatsDecryptionOutcome(m) =
               (IF isInitialized(encryptedMineralStats[m]) THEN "ok"
                ELSE "Mineral type not found"))
    /\ [][Changed => \A m \in Strings :
            requestMineralStatsDecryption(m) =>
               IF isInitialized(encryptedMineralStats[m])
               THEN /\ counterRequest' = counterRequest + 1
                    /\ requestToDataId' =
                         [requestToDataId EXCEPT ![counterRequest] = bytes32ToUint(keccak256(m))]
                    /\ requestedHandles'[counterRequest] =
                         [selector |-> "decryptMineralStats", cts |-> <<encryptedMineralStats[m]>>]
               ELSE UNCHANGED vars]_vars

\* a request id registered for a counted mineral type, while another mineral
\* type has no counter
C12_Witness ==
    /\ \E m \in MineralTypes : ~isInitialized(encryptedMineralStats[m])
    /\ \E m \in MineralTypes, r \in Issued :
         /\ isInitialized(encryptedMineralStats[m])
         /\ selectorOf(r) = "decryptMineralStats"
         /\ requestToDataId[r] = bytes32ToUint(keccak256(m))

\* C13: the order of callbacks does not matter.  For two request ids whose
\* targets differ and whose callbacks would both be accepted now, each is
\* still accepted after the other, and both orders leave the same rows, the
\* same counters and the same set of catalogued mineral types.  (The first
\* two conjuncts tie analyzeSupplyChainOutcomeIn and analyzeWrites to the
\* transaction itself.)
SetOf(seq) == {seq[i] : i \in 1 .. Len(seq)}
C13_CallbackOrderIndependent ==
    /\ [](\A r \in RequestIds : \A in \in CallbackInputs(r) :
            analyzeSupplyChainOutcomeIn(Storage, r, in[1], in[2]) =
               analyzeSupplyChainOutcome(r, in[1], in[2]))
    /\ [][Changed => \A r \in RequestIds : \A in \in CallbackInputs(r) :
            (/\ analyzeSupplyChainOutcome(r, in[1], in[2]) = "ok"
             /\ analyzeSupplyChain(r, in[1], in[2]))
               => Storage' = analyzeWrites(Storage, requestToDataId[r], in[1])]_vars
    /\ [](\A r1, r2 \in Issued :
            \A in1 \in CallbackInputs(r1), in2 \in CallbackInputs(r2) :
               (/\ requestToDataId[r1] # requestToDataId[r2]
                /\ analyzeSupplyChainOutcome(r1, in1[1], in1[2]) = "ok"
                /\ analyzeSupplyChainOutcome(r2, in2[1], in2[2]) = "ok")
                  => LET s1 == analyzeWrites(Storage, requestToDataId[r1], in1[1])
                         s2 == analyzeWrites(Storage, requestToDataId[r2], in2[1])
                         s12 == analyzeWrites(s1, requestToDataId[r2], in2[1])
                         s21 == analyzeWrites(s2, requestToDataId[r1], in1[1])
                     IN
                     /\ analyzeSupplyChainOutcomeIn(s1, r2, in2[1], in2[2]) = "ok"
                     /\ analyzeSupplyChainOutcomeIn(s2, r1, in1[1], in1[2]) = "ok"
                     /\ s12.decryptedSupplyData = s21.decryptedSupplyData
                     /\ s12.encryptedMineralStats = s21.encryptedMineralStats
                     /\ SetOf(s12.mineralTypeList) = SetOf(s21.mineralTypeList))

\* two pending requests for two submitted disclosures of different mineral
\* types, neither counted yet: the two orders list them in different order
C13_Witness ==
    \E r1, r2 \in Issued :
        LET d1 == requestToDataId[r1]
            d2 == requestToDataId[r2]
            c1 == OracleCleartexts(r1)
            c2 == OracleCleartexts(r2)
        IN
        /\ d1 \in 1 .. dataCount /\ d2 \in 1 .. dataCount /\ d1 # d2
        /\ analyzeSupplyChainOutcome(r1, c1, "signed") = "ok"
        /\ analyzeSupplyChainOutcome(r2, c2, "signed") = "ok"
        /\ c1[1] # c2[1]
        /\ analyzeWrites(analyzeWrites(Storage, d1, c1), d2, c2).mineralTypeList
             # analyzeWrites(analyzeWrites(Storage, d2, c2), d1, c1).mineralTypeList

\* C14: an analyzeSupplyChain callback whose payload is not the three values
\* (mineral type, quantity, origin) is never accepted and changes nothing:
\* the target stays as it was, no counter or catalog entry changes and the
\* request id stays registered.  When the request id is registered for an
\* unresolved target and the proof verifies, the rejection is the decoder's
\* (MalformedPayload).
IsSupplyDataPayload(cleartexts) == Len(cleartexts) = 3
C14_MalformedPayloadRejected ==
    /\ [](\A r \in RequestIds : \A in \in CallbackInputs(r) :
            ~IsSupplyDataPayload(in[1]) =>
               /\ analyzeSupplyChainOutcome(r, in[1], in[2]) # "ok"
               /\ (/\ requestToDataId[r] # 0
                   /\ ~decryptedSupplyData[requestToDataId[r]].isAnalyzed
                   /\ checkSignatures(r, in[1], in[2]))
                     => analyzeSupplyChainOutcome(r, in[1], in[2]) = "MalformedPayload")
    /\ [][Changed => \A r \in RequestIds : \A in \in CallbackInputs(r) :
            (~IsSupplyDataPayload(in[1]) /\ analyzeSupplyChain(r, in[1], in[2]))
               => UNCHANGED vars]_vars

\* a registered request id whose signed payload is a single value: the
\* signature verifies, the target is unresolved, the decoder rejects it
C14_Witness ==
    \E r \in Issued :
        /\ requestToDataId[r] # 0
        /\ ~decryptedSupplyData[requestToDataId[r]].isAnalyzed
        /\ checkSignatures(r, OracleCleartexts(r), "signed")
        /\ ~IsSupplyDataPayload(OracleCleartexts(r))
        /\ analyzeSupplyChainOutcome(r, OracleCleartexts(r), "signed") = "MalformedPayload"

\* C15: getDecryptedSupplyData tells an id outside 1..dataCount from an id
\* inside it (what it answers for an id outside is answered for no id
\* inside), and for an id inside it answers the stored row: the empty
\* placeholder while the id is not analyzed, the plaintext of the
\* disclosure's three handles afterwards.
C15_NotFoundOutsideRange ==
    /\ \A id \in DataIds \ (1 .. dataCount) : \A j \in 1 .. dataCount :
          getDecryptedSupplyData(id) # getDecryptedSupplyData(j)
    /\ \A j \in 1 .. dataCount :
          getDecryptedSupplyData(j) =
             IF decryptedSupplyData[j].isAnalyzed
             THEN [mineralType |-> encryptedSupplyData[j].encryptedMineralType.pt,
                   quantity |-> encryptedSupplyData[j].encryptedQuantity.pt,
                   origin |-> encryptedSupplyData[j].encryptedOrigin.pt,
                   isAnalyzed |-> TRUE]
             ELSE EmptyDecrypted

\* C16: getMineralTypeFromHash round-trips: for every mineral type in the
\* catalog, the lookup of its hash returns that mineral type, and for every
\* other key (0, a ledger id, the hash of a mineral type not in the
\* catalog) the lookup reverts.
C16_FingerprintRoundTrip ==
    /\ \A i \in 1 .. Len(mineralTypeList) :
          getMineralTypeFromHash(bytes32ToUint(keccak256(mineralTypeList[i]))) =
             [found |-> TRUE, mineralType |-> mineralTypeList[i]]
    /\ \A h \in DataIds \ {bytes32ToUint(keccak256(mineralTypeList[i])) :
                               i \in 1 .. Len(mineralTypeList)} :
          getMineralTypeFromHash(h) = NotFound

\* two mineral types in the catalog, a third hash that is in no catalog
\* entry, and a request id that was never registered (key 0)
C16_Witness ==
    /\ Len(mineralTypeList) >= 2
    /\ \E s \in Strings :
         /\ \A i \in 1 .. Len(mineralTypeList) : mineralTypeList[i] # s
         /\ getMineralTypeFromHash(bytes32ToUint(keccak256(s))) = NotFound
    /\ \E r \in RequestIds : requestToDataId[r] = 0
    /\ getMineralTypeFromHash(bytes32ToUint(keccak256(mineralTypeList[2]))).mineralType
         = mineralTypeList[2]

\* C17: calculateSupplyRisk(mineralType, highRiskRegions) is floor(100*H/T),
\* T the sum of the quantities of the analyzed disclosures of mineralType
\* and H the sum over those of them whose origin is listed in
\* highRiskRegions (once each, however often the origin is listed); it is 0
\* when T = 0, and always within 0..100.
RECURSIVE SumQuantity(_)
SumQuantity(ids) ==
    IF ids = {} THEN 0
    ELSE LET i == CHOOSE i \in ids : TRUE IN
         decryptedSupplyData[i].quantity + SumQuantity(ids \ {i})
RECURSIVE SeqsUpTo(_, _)
SeqsUpTo(S, n) ==
    IF n = 0 THEN {<<>>}
    ELSE LET shorter == SeqsUpTo(S, n - 1) IN
         shorter \cup {Append(q, x) : q \in shorter, x \in S}
RegionLists == SeqsUpTo(Origins \cup {""}, MaxRegions)
ResolvedOf(mineralType) ==
    {i \in 1 .. dataCount :
       decryptedSupplyData[i].isAnalyzed /\ decryptedSupplyData[i].mineralType = mineralType}
C17_RiskIsFlooredShare ==
    \A m \in Strings, regions \in RegionLists :
        LET T == SumQuantity(ResolvedOf(m))
            H == SumQuantity({i \in ResolvedOf(m) :
                               decryptedSupplyData[i].origin \in SetOf(regions)})
            risk == calculateSupplyRisk(m, regions)
        IN
        /\ risk = (IF T = 0 THEN 0 ELSE (100 * H) \div T)
        /\ risk \in 0 .. 100

\* Cobalt analyzed twice, 10 from A and 20 from B: the share of B, listed
\* twice, is floor(2000/30) = 66, and the share for Lithium is 0 (T = 0)
C17_Witness ==
    /\ SumQuantity(ResolvedOf("Cobalt")) = 30
    /\ calculateSupplyRisk("Cobalt", <<"B", "B">>) = 66
    /\ calculateSupplyRisk("Lithium", <<"B">>) = 0

\* C18: only aggregates are revealed: no row of a submitted disclosure holds
\* the plaintext of its mineral type, quantity or origin handle, and every
\* decryption the oracle is asked for is that of a per-mineral counter.
C18_OnlyAggregatesRevealed ==
    /\ \A id \in 1 .. dataCount :
          /\ getDecryptedSupplyData(id).mineralType # encryptedSupplyData[id].encryptedMineralType.pt
          /\ getDecryptedSupplyData(id).quantity # encryptedSupplyData[id].encryptedQuantity.pt
          /\ getDecryptedSupplyData(id).origin # encryptedSupplyData[id].encryptedOrigin.pt
    /\ \A r \in Issued : selectorOf(r) = "decryptMineralStats"

\* C19: the callbacks check the proof before they look the request id up: a
\* callback whose proof does not verify answers InvalidProof, also when the
\* request id is not registered or its target is already analyzed.
C19_ProofCheckedFirst ==
    \A r \in RequestIds : \A in \in CallbackInputs(r) :
        ~checkSignatures(r, in[1], in[2]) =>
            /\ analyzeSupplyChainOutcome(r, in[1], in[2]) = "InvalidProof"
            /\ decryptMineralStatsOutcome(r, in[1], in[2]) = "InvalidProof"

\* C20: the row of an id is written by nothing but an accepted
\* analyzeSupplyChain callback for a request id that requestSupplyAnalysis
\* registered for that id: every step that changes the isAnalyzed flag or a
\* plaintext field of a row is such a callback (so the row of an id no
\* callback is accepted for stays unresolved).
C20_ResolvedOnlyByCallback ==
    [][\A id \in DataIds :
         decryptedSupplyData'[id] # decryptedSupplyData[id] =>
            \E r \in Issued : \E in \in CallbackInputs(r) :
               /\ selectorOf(r) = "analyzeSupplyChain"
               /\ requestToDataId[r] = id
               /\ analyzeSupplyChainOutcome(r, in[1], in[2]) = "ok"
               /\ analyzeSupplyChain(r, in[1], in[2])]_vars

\* C21: request ids never expire.  A request id that requestSupplyAnalysis
\* registered for an id stays registered for that id, with the handles the
\* oracle saved, through every later step; and as long as the row of that
\* id is not analyzed, the callback with that request id, a proof that
\* verifies and a payload of three values is accepted (the oracle's own
\* callback is one).  Stated for the ids other than 0, which is no
\* disclosure.
C21_TokensNeverExpire ==
    /\ [](\A r \in Issued :
            (/\ selectorOf(r) = "analyzeSupplyChain"
             /\ requestToDataId[r] # 0
             /\ ~decryptedSupplyData[requestToDataId[r]].isAnalyzed)
               => /\ checkSignatures(r, OracleCleartexts(r), "signed")
                  /\ IsSupplyDataPayload(OracleCleartexts(r))
                  /\ \A in \in CallbackInputs(r) :
                        (checkSignatures(r, in[1], in[2]) /\ IsSupplyDataPayload(in[1]))
                           => analyzeSupplyChainOutcome(r, in[1], in[2]) = "ok")
    /\ [][Changed =>
            /\ \A r \in Issued :
                  /\ requestToDataId'[r] = requestToDataId[r]
                  /\ requestedHandles'[r] = requestedHandles[r]
            /\ \A dataId \in CallerDataIds :
                  requestSupplyAnalysis(dataId) =>
                     /\ requestToDataId'[counterRequest] = dataId
                     /\ requestedHandles'[counterRequest].selector = "analyzeSupplyChain"]_vars

\* request 1 was registered for disclosure 1; since then disclosure 2 was
\* submitted, requested and analyzed; disclosure 1 is still unresolved and
\* the callback of request 1 is still accepted
C21_Witness ==
    /\ dataCount = 2
    /\ requestToDataId[1] = 1 /\ requestToDataId[2] = 2
    /\ decryptedSupplyData[2].isAnalyzed
    /\ ~decryptedSupplyData[1].isAnalyzed
    /\ accepted[<<"analyzeSupplyChain", 2>>] >= 1
    /\ analyzeSupplyChainOutcome(1, OracleCleartexts(1), "signed") = "ok"

\* C22: a mineral type is in the catalog if and only if its counter is
\* initialized, and if and only if an analysis callback revealing that
\* mineral type has been accepted; the counter is initialized, and is 1,
\* and the mineral type is appended, in the accepted callback that reveals
\* the mineral type for the first time.
Revealed(c) ==
    \E r \in Issued :
        /\ selectorOf(r) = "analyzeSupplyChain"
        /\ accepted[<<"analyzeSupplyChain", r>>] >= 1
        /\ OracleCleartexts(r)[1] = c
C22_CatalogIffCounter ==
    /\ [](\A c \in Strings :
            /\ (c \in SetOf(mineralTypeList)) <=> isInitialized(encryptedMineralStats[c])
            /\ isInitialized(encryptedMineralStats[c]) <=> Revealed(c))
    /\ [][Changed => \A c \in Strings :
            (~isInitialized(encryptedMineralStats[c]) /\ isInitialized(encryptedMineralStats'[c]))
               => /\ encryptedMineralStats'[c].pt = 1
                  /\ mineralTypeList' = Append(mineralTypeList, c)
                  /\ \E r \in Issued : \E in \in CallbackInputs(r) :
                        /\ analyzeSupplyChainOutcome(r, in[1], in[2]) = "ok"
                        /\ in[1][1] = c
                        /\ analyzeSupplyChain(r, in[1], in[2])]_vars

\* one mineral type revealed and catalogued, another submitted and
\* requested but not revealed: it has no counter and is not in the catalog
C22_Witness ==
    \E c, d \in MineralTypes :
        /\ encryptedMineralStats[c].pt = 1
        /\ c \in SetOf(mineralTypeList)
        /\ ~isInitialized(encryptedMineralStats[d])
        /\ d \notin SetOf(mineralTypeList)
        /\ \E r \in Issued :
              /\ selectorOf(r) = "analyzeSupplyChain"
              /\ OracleCleartexts(r)[1] = d
              /\ accepted[<<"analyzeSupplyChain", r>>] = 0

\* C23: the catalog is append-only and in first-seen order.  A step either
\* leaves the catalog as it is or appends one mineral type at its end, and
\* it appends exactly when it is an accepted analysis callback revealing a
\* mineral type the catalog does not hold; the summary lists the catalog in
\* that order.
C23_CatalogAppendOnly ==
    /\ [](getCriticalMineralSummary.minerals = mineralTypeList)
    /\ [][Changed =>
            /\ \/ mineralTypeList' = mineralTypeList
               \/ \E c \in Strings :
                     /\ c \notin SetOf(mineralTypeList)
                     /\ mineralTypeList' = Append(mineralTypeList, c)
            /\ \A r \in Issued : \A in \in CallbackInputs(r) :
                  (/\ analyzeSupplyChainOutcome(r, in[1], in[2]) = "ok"
                   /\ analyzeSupplyChain(r, in[1], in[2]))
                     => mineralTypeList' =
                           (IF in[1][1] \in SetOf(mineralTypeList) THEN mineralTypeList
                            ELSE Append(mineralTypeList, in[1][1]))
            /\ mineralTypeList' # mineralTypeList =>
                  \E r \in Issued : \E in \in CallbackInputs(r) :
                     /\ analyzeSupplyChainOutcome(r, in[1], in[2]) = "ok"
                     /\ analyzeSupplyChain(r, in[1], in[2])]_vars

\* Cobalt was submitted first (id 1) and requested first (request 1),
\* Lithium was analyzed first: the catalog lists Lithium before Cobalt
C23_Witness ==
    /\ encryptedSupplyData[1].encryptedMineralType.pt = "Cobalt"
    /\ encryptedSupplyData[2].encryptedMineralType.pt = "Lithium"
    /\ requestToDataId[1] = 1
    /\ requestToDataId[2] = 2
    /\ mineralTypeList = <<"Lithium", "Cobalt">>

\* C24: a counter is changed by increment only.  Across a step every
\* counter is unchanged or is initialized with a plaintext larger by
\* exactly 1; an accepted analysis callback increments the counter of the
\* mineral type it reveals and no other; no other step changes a counter.
C24_CounterOnlyIncremented ==
    [][Changed =>
         /\ \A c \in Strings :
               \/ encryptedMineralStats'[c] = encryptedMineralStats[c]
               \/ /\ isInitialized(encryptedMineralStats'[c])
                  /\ encryptedMineralStats'[c].pt = encryptedMineralStats[c].pt + 1
         /\ \A r \in Issued : \A in \in CallbackInputs(r) :
               (/\ analyzeSupplyChainOutcome(r, in[1], in[2]) = "ok"
                /\ analyzeSupplyChain(r, in[1], in[2]))
                  => \A c \in Strings :
                        encryptedMineralStats'[c].pt =
                           encryptedMineralStats[c].pt + (IF c = in[1][1] THEN 1 ELSE 0)
         /\ encryptedMineralStats' # encryptedMineralStats =>
               \E r \in Issued : \E in \in CallbackInputs(r) :
                  /\ analyzeSupplyChainOutcome(r, in[1], in[2]) = "ok"
                  /\ analyzeSupplyChain(r, in[1], in[2])]_vars

\* a counter that was incremented twice, by the callbacks of two requests
C24_Witness ==
    \E c \in MineralTypes :
        /\ encryptedMineralStats[c].pt = 2
        /\ accepted[<<"analyzeSupplyChain", 1>>] = 1
        /\ accepted[<<"analyzeSupplyChain", 2>>] = 1

\* C25: an accepted decryptMineralStats callback is terminal: it changes no
\* disclosure, no row, no counter, not the catalog and not dataCount.
C25_AggregateFulfilTerminal ==
    [][Changed => \A r \in RequestIds : \A in \in CallbackInputs(r) :
         (/\ decryptMineralStatsOutcome(r, in[1], in[2]) = "ok"
          /\ decryptMineralStats(r, in[1], in[2]))
            => UNCHANGED <<dataCount, encryptedSupplyData, decryptedSupplyData,
                           encryptedMineralStats, mineralTypeList>>]_vars

\* a decryptMineralStats callback was accepted for a counted mineral type
C25_Witness ==
    \E r \in Issued :
        /\ selectorOf(r) = "decryptMineralStats"
        /\ accepted[<<"decryptMineralStats", r>>] >= 1
        /\ \E m \in MineralTypes :
              /\ requestToDataId[r] = bytes32ToUint(keccak256(m))
              /\ encryptedMineralStats[m].pt >= 1
              /\ \E id \in 1 .. dataCount : decryptedSupplyData[id].mineralType = m

\* C26: a disclosure is immutable once created: no step changes or deletes
\* the id, the three handles or the timestamp stored for a submitted id.
C26_DisclosureImmutable ==
    [][Changed => \A id \in 1 .. dataCount :
         encryptedSupplyData'[id] = encryptedSupplyData[id]]_vars

\* disclosure 1 as submitted, after a second submit and after its own
\* request and callback
C26_Witness ==
    /\ dataCount = 2
    /\ decryptedSupplyData[1].isAnalyzed
    /\ accepted[<<"analyzeSupplyChain", 1>>] = 1
    /\ requestToDataId[1] = 1
    /\ encryptedSupplyData[1].id = 1
    /\ isInitialized(encryptedSupplyData[1].encryptedMineralType)
    /\ encryptedSupplyData[1].encryptedMineralType.pt = decryptedSupplyData[1].mineralType

\* C27: submitEncryptedSupplyData never fails (below the bound on
\* submissions it can always be called); the step assigns dataCount + 1,
\* after it getDecryptedSupplyData of the new id is the empty placeholder,
\* and it leaves every disclosure and row of the ids submitted before, every
\* counter, the catalog and every registered request as they were.
C27_SubmitFrame ==
    /\ [](dataCount < MaxData =>
            \A s \in Submissions, t \in Timestamps :
               ENABLED submitEncryptedSupplyData(Encrypt(s[1]), Encrypt(s[2]), Encrypt(s[3]), t))
    /\ [][Changed =>
            /\ \A s \in Submissions, t \in Timestamps :
                  submitEncryptedSupplyData(Encrypt(s[1]), Encrypt(s[2]), Encrypt(s[3]), t)
                     => dataCount' = dataCount + 1
            /\ dataCount' # dataCount =>
                  /\ dataCount' = dataCount + 1
                  /\ decryptedSupplyData'[dataCount'] = EmptyDecrypted
                  /\ \A id \in 1 .. dataCount :
                        /\ encryptedSupplyData'[id] = encryptedSupplyData[id]
                        /\ decryptedSupplyData'[id] = decryptedSupplyData[id]
                  /\ UNCHANGED <<encryptedMineralStats, mineralTypeList,
                                 requestToDataId, oracleVars>>]_vars

\* id 2 was submitted after disclosure 1 was analyzed and after a callback
\* for id 2 had been accepted: its row is the empty placeholder
C27_Witness ==
    /\ dataCount = 2
    /\ decryptedSupplyData[1].isAnalyzed
    /\ requestToDataId[2] = 2
    /\ accepted[<<"analyzeSupplyChain", 2>>] >= 1
    /\ getDecryptedSupplyData(2) = EmptyDecrypted

\* C28: every analyzed row belongs to a submitted disclosure: if the row of
\* id is analyzed then 1 <= id <= dataCount.
C28_ResolvedIsSubmitted ==
    \A id \in DataIds :
        decryptedSupplyData[id].isAnalyzed => id \in 1 .. dataCount

\* C29: every row that is not analyzed is the empty placeholder: mineral
\* type "", quantity 0, origin "".
C29_UnresolvedIsEmpty ==
    \A id \in DataIds :
        ~decryptedSupplyData[id].isAnalyzed =>
            /\ decryptedSupplyData[id].mineralType = ""
            /\ decryptedSupplyData[id].quantity = 0
            /\ decryptedSupplyData[id].origin = ""

\* two submitted disclosures, both requested: one analyzed, the other not
\* and empty
C29_Witness ==
    \E i, j \in 1 .. dataCount :
        /\ decryptedSupplyData[i].isAnalyzed
        /\ decryptedSupplyData[i].mineralType # ""
        /\ ~decryptedSupplyData[j].isAnalyzed
        /\ \E r \in Issued : requestToDataId[r] = j
        /\ getDecryptedSupplyData(j) = EmptyDecrypted

\* C30: getCriticalMineralSummary lists the catalog in order and, for each
\* entry, the sum of the quantities of the analyzed disclosures of that
\* mineral type; the mineral type of every analyzed disclosure is in the
\* catalog, and the catalog lists it once, so the totals add up to the sum
\* of the quantities of all analyzed disclosures.
RECURSIVE SumSeq(_)
SumSeq(q) == IF q = <<>> THEN 0 ELSE q[1] + SumSeq(Tail(q))
C30_SummaryTotals ==
    LET summary == getCriticalMineralSummary
        resolved == {i \in DataIds : decryptedSupplyData[i].isAnalyzed}
        resolvedOf(c) == {i \in resolved : decryptedSupplyData[i].mineralType = c}
    IN
    /\ summary.minerals = mineralTypeList
    /\ Len(summary.totalQuantities) = Len(mineralTypeList)
    /\ \A i \in 1 .. Len(mineralTypeList) :
          summary.totalQuantities[i] = SumQuantity(resolvedOf(mineralTypeList[i]))
    /\ \A i \in resolved : decryptedSupplyData[i].mineralType \in SetOf(mineralTypeList)
    /\ \A i, j \in 1 .. Len(mineralTypeList) :
          mineralTypeList[i] = mineralTypeList[j] => i = j
    /\ SumSeq(summary.totalQuantities) = SumQuantity(resolved)

\* Lithium analyzed before Cobalt: the summary lists Lithium 30, Cobalt 20
C30_Witness ==
    /\ getCriticalMineralSummary.minerals = <<"Lithium", "Cobalt">>
    /\ getCriticalMineralSummary.totalQuantities = <<30, 20>>

\* C31: when two submitRecord calls have both returned, both record ids
\* are listed in supply_keys: no submitted record is lost from the index.
C31_NoLostRecord ==
    \A a, b \in completed :
        a # b => {a, b} \subseteq SetOf(readKeys)

\* C32: at every point of every interleaving of the dashboard's handlers,
\* every id listed in supply_keys has a record stored under supply_<id>,
\* a stored record with status flagged has riskScore > 70 and one with
\* status verified has riskScore <= 70.
C32_IndexedAndStatusMatchesScore ==
    /\ \A i \in 1 .. Len(readKeys) : Len(getData(supplyKey(readKeys[i]))) > 0
    /\ \A id \in RecordIds :
          LET recordBytes == getData(supplyKey(id)) IN
          Len(recordBytes) > 0 =>
              /\ parseJson(recordBytes).status = "flagged"
                    => parseJson(recordBytes).riskScore > 70
              /\ parseJson(recordBytes).status = "verified"
                    => parseJson(recordBytes).riskScore <= 70

\* both ids are listed, one record is flagged and the other verified, and
\* a session is in the middle of assessRiskWithFHE, about to overwrite a
\* record that another session is reading into its list
C32_Witness ==
    /\ SetOf(readKeys) = RecordIds
    /\ \E id \in RecordIds : parseJson(getData(supplyKey(id))).status = "flagged"
    /\ \E id \in RecordIds : parseJson(getData(supplyKey(id))).status = "verified"
    /\ \E s, t \in Sessions :
          /\ pc[s] = "assess_setRecord"
          /\ frame[s].data.status # parseJson(getData(supplyKey(frame[s].recordId))).status
          /\ pc[t] = "load_record"
          /\ frame[t].keys # <<>>
====
